---- MODULE Spec2Model ----
(***************************************************************************)
(* Keyscore API search tool (src/api.py): the multi-source search loop,    *)
(* the multi-source count loop, the credit estimate, the record renderer   *)
(* and the report writer.                                                   *)
(*                                                                         *)
(* Data representation.                                                    *)
(*  - A Python dict with insertion order is a sequence of <<key, value>>   *)
(*    pairs with distinct keys.                                            *)
(*  - A list item that should be a record is [dict |-> TRUE, items |-> d]  *)
(*    when it is a dict and [dict |-> FALSE, items |-> <<>>] when the      *)
(*    JSON held something else there (null, a string, a number).           *)
(*  - A JSON number is [t |-> "num", v |-> n]; JSON null is JNull.         *)
(*  - Record field values are strings; None stands for Python's None.      *)
(*  - A response body is a function whose DOMAIN is the set of keys the    *)
(*    JSON object holds, so dict.get(key, default) is Get(d, key, default).*)
(*  - The two non-ASCII marks of the bucket key (line 167) are written     *)
(*    "*" and ">" here.                                                    *)
(***************************************************************************)
EXTENDS Integers, Sequences, FiniteSets, TLC

VARIABLES
    \* ---- KeyscoreAPI.search_all_sources (lines 134-182)
    types,               \* argument types (a list; types[0] drives normalisation)
    search_term,         \* argument search_term
    i,                   \* number of catalog sources the loop has processed
    all_results,         \* [results, size, took] (line 139)
    successful_sources,  \* line 140
    pc,                  \* "loop" | "done" | "escaped"
    responses,           \* history: the HTTP response each processed source gave
    queried,             \* history: the source of each call of self.search (line 149)
    errors,              \* history: the sources whose error line 178 printed
    \* ---- count_all_sources (lines 420-443) and print_count_results (376-418)
    c_i,                 \* number of catalog sources the count loop has processed
    total_count,         \* line 424
    source_counts,       \* line 425, a dict as a sequence of <<source, count>>
    c_pc,                \* "loop" | "done" | "printed" | "escaped"
    count_responses,     \* history: the HTTP response each counted source gave
    count_data,          \* the dict handed to print_count_results
    credit_lines,        \* the lines print_count_results printed after its heading
    \* ---- print_results (196-251) and save_results_to_file (253-374)
    r_results,           \* the results dict handed to the renderer / the writer
    save_args,           \* [search_term, search_type] of save_results_to_file
    fault,               \* the I/O failure the environment raises during the save
    console,             \* what print_results printed, one entry per line
    file,                \* what save_results_to_file wrote, one entry per line
    save_ret,            \* what save_results_to_file returned
    save_msg,            \* the outcome message save_results_to_file printed
    r_pc                 \* "start" | "printed" | "saved" | "escaped"

vars == <<types, search_term, i, all_results, successful_sources, pc, responses,
          queried, errors, c_i, total_count, source_counts, c_pc, count_responses,
          count_data, credit_lines, r_results, save_args, fault, console, file,
          save_ret, save_msg, r_pc>>

search_vars == <<types, search_term, i, all_results, successful_sources, pc,
                 responses, queried, errors>>
count_vars == <<c_i, total_count, source_counts, c_pc, count_responses,
                count_data, credit_lines>>
render_vars == <<r_results, save_args, fault, console, file, save_ret, save_msg, r_pc>>

----------------------------------------------------------------------------
(* Bounds *)

\* How many sources of the catalog a run queries (the program has 11).
NumSources == 3

\* How many fields the generated records handed to the renderer hold.
MaxFields == 2

----------------------------------------------------------------------------
(* Values *)

None == "<None>"
NA == "N/A"

JNum(n) == [t |-> "num", v |-> n]
JNull == [t |-> "null", v |-> 0]

\* The None that save_results_to_file returns, shaped like a file name.
NoPath == [safe_term |-> <<>>, search_type |-> "", suffix |-> "None"]

Dict(d) == [dict |-> TRUE, items |-> d]
NonDict == [dict |-> FALSE, items |-> <<>>]

\* dict.get(key, default) on a JSON object modelled as a function
Get(d, key, default) == IF key \in DOMAIN d THEN d[key] ELSE default

\* Ordered dicts: sequences of <<key, value>> pairs
Keys(d) == {d[k][1] : k \in 1..Len(d)}
HasKey(d, key) == \E k \in 1..Len(d) : d[k][1] = key
Lookup(d, key) == d[CHOOSE k \in 1..Len(d) : d[k][1] = key][2]
\* record.get(key): None when the key is absent
DictGet(d, key) == IF HasKey(d, key) THEN Lookup(d, key) ELSE None
\* A dict that puts a new key first (mutant of DictSet).
DictSetPrepends(d, key, value) ==
    IF \E k \in 1..Len(d) : d[k][1] = key
    THEN [k \in 1..Len(d) |-> IF d[k][1] = key THEN <<key, value>> ELSE d[k]]
    ELSE <<<<key, value>>>> \o d

\* d[key] = value: an existing key keeps its position, a new key goes last
DictSet(d, key, value) ==
    IF HasKey(d, key)
    THEN [k \in 1..Len(d) |-> IF d[k][1] = key THEN <<key, value>> ELSE d[k]]
    ELSE Append(d, <<key, value>>)

RECURSIVE SumSeq(_)
SumSeq(s) == IF s = <<>> THEN 0 ELSE Head(s) + SumSeq(Tail(s))

----------------------------------------------------------------------------
(* KeyscoreAPI.__init__ *)

all_sources_full ==
    <<"xkeyscore", "snusbase", "leakcheck", "hackcheck", "oathnet",
      "ghosint.leakosint", "ghosint.seon", "ghosint.breachvip",
      "osintdog.intelvault", "osintdog.breachbase", "osintdog.akula">>

all_sources == SubSeq(all_sources_full, 1, NumSources)

----------------------------------------------------------------------------
(* KeyscoreAPI.search (lines 32-91) *)

\* What requests.post gave: a RequestException, or a response with a status
\* code and a JSON body.
TransportFailure == [sent |-> FALSE, status |-> 0, json |-> [took |-> JNum(0)]]
HttpReply(status, body) == [sent |-> TRUE, status |-> status, json |-> body]

Raise(exc, msg) == [raised |-> TRUE, exc |-> exc, msg |-> msg, value |-> [took |-> JNum(0)]]
Return(value) == [raised |-> FALSE, exc |-> "", msg |-> "", value |-> value]

search(http) ==
    IF ~http.sent THEN Raise("Exception", "Request failed")
    ELSE IF http.status = 200 THEN Return(http.json)
    ELSE IF http.status = 400 THEN Raise("Exception", "Bad Request: Invalid request body")
    ELSE IF http.status = 401 THEN Raise("Exception", "Unauthorized: Missing or invalid API key")
    ELSE IF http.status = 402 THEN Raise("Exception", "Payment Required: Insufficient credits")
    ELSE IF http.status = 403 THEN Raise("Exception", "Forbidden: Invalid request origin")
    ELSE IF http.status = 500 THEN Raise("Exception", "Internal Server Error")
    ELSE Raise("Exception", "Unexpected status code")

\* The classes `except Exception` catches, among those the loop bodies raise.
ExceptionClasses == {"Exception", "AttributeError", "TypeError"}

----------------------------------------------------------------------------
(* KeyscoreAPI.search_all_sources (lines 134-182) *)

NormalisedTypes == {"email", "url", "username"}

\* A normalisation that overwrites the field whatever it held (mutant of
\* NormaliseRecord).
NormaliseRecordOverwrites(record, tys, term) ==
    IF tys[1] \in {"email", "url", "username"}
    THEN [raised |-> ~record.dict,
          record |-> IF record.dict THEN [dict |-> TRUE, items |-> DictSet(record.items, tys[1], term)]
                     ELSE record]
    ELSE [raised |-> FALSE, record |-> record]

\* Lines 160-165 on one list item.  record.get is evaluated only in the arm
\* whose types[0] comparison is true; on a non-dict item it raises.
NormaliseRecord(record, tys, term) ==
    LET t == tys[1]
        missing(f) == DictGet(record.items, f) \in {NA, None, ""}
        set(f) == [raised |-> FALSE, record |-> Dict(DictSet(record.items, f, term))]
        keep == [raised |-> FALSE, record |-> record]
        fail == [raised |-> TRUE, record |-> record]
    IN  IF t = "email" THEN
            IF ~record.dict THEN fail ELSE IF missing("email") THEN set("email") ELSE keep
        ELSE IF t = "url" THEN
            IF ~record.dict THEN fail ELSE IF missing("url") THEN set("url") ELSE keep
        ELSE IF t = "username" THEN
            IF ~record.dict THEN fail
            ELSE IF missing("username") THEN set("username") ELSE keep
        ELSE keep

\* Lines 159-165: the inner loop over one bucket's records.
RECURSIVE NormaliseRecords(_, _, _)
NormaliseRecords(records, tys, term) ==
    IF records = <<>> THEN [raised |-> FALSE, records |-> <<>>]
    ELSE LET h == NormaliseRecord(Head(records), tys, term)
         IN  IF h.raised THEN [raised |-> TRUE, records |-> <<>>]
             ELSE LET rest == NormaliseRecords(Tail(records), tys, term)
                  IN  IF rest.raised THEN rest
                      ELSE [raised |-> FALSE, records |-> <<h.record>> \o rest.records]

\* A key that leaves the source out (mutant of Key).
KeyWithoutSource(source, db_name) == "*" \o ">" \o db_name

\* Line 167: the key of a bucket in the aggregate.
Key(source, db_name) == "*" \o source \o ">" \o db_name

\* Lines 157-167: the loop over the buckets of one response.  A bucket is
\* stored once all its records are normalised; an error leaves the buckets
\* stored before it in place.
RECURSIVE MergeBuckets(_, _, _, _, _)
MergeBuckets(buckets, source, agg, tys, term) ==
    IF buckets = <<>> THEN [raised |-> FALSE, results |-> agg]
    ELSE LET db_name == Head(buckets)[1]
             n == NormaliseRecords(Head(buckets)[2], tys, term)
         IN  IF n.raised THEN [raised |-> TRUE, results |-> agg]
             ELSE MergeBuckets(Tail(buckets), source,
                               DictSet(agg, Key(source, db_name), n.records), tys, term)

\* Lines 152-173: from the test of result.get("results") to the end of the
\* if/else.  st is [all_results, successful_sources].
MergeResult(st, source, result, tys, term) ==
    LET results == Get(result, "results", <<>>)
        found_count == Get(result, "size", JNum(0))
        done(s) == [raised |-> FALSE, exc |-> "", st |-> s]
        fail(e, s) == [raised |-> TRUE, exc |-> e, st |-> s]
    IN  IF results = <<>> THEN done(st)
        ELSE IF found_count.t # "num" THEN fail("TypeError", st)
        ELSE IF found_count.v > 0 THEN
            LET m == MergeBuckets(results, source, st.all_results.results, tys, term)
                merged == [st EXCEPT !.all_results.results = m.results]
            IN  IF m.raised THEN fail("AttributeError", merged)
                ELSE done([merged EXCEPT !.all_results.size = @ + found_count.v,
                                         !.successful_sources = @ + 1])
        ELSE done(st)

\* Elapsed time added only for a response that reports results (mutant of
\* AddTook).
AddTookOnlyWithResults(st, result) ==
    LET took == Get(result, "took", JNum(0))
        found_count == Get(result, "size", JNum(0))
    IN  IF took.t # "num" THEN [raised |-> TRUE, exc |-> "TypeError", st |-> st]
        ELSE [raised |-> FALSE, exc |-> "",
              st |-> IF found_count.v > 0
                     THEN [st EXCEPT !.all_results.took = @ + took.v] ELSE st]

\* Line 175.
AddTook(st, result) ==
    LET took == Get(result, "took", JNum(0))
    IN  IF took.t # "num" THEN [raised |-> TRUE, exc |-> "TypeError", st |-> st]
        ELSE [raised |-> FALSE, exc |-> "",
              st |-> [st EXCEPT !.all_results.took = @ + took.v]]

\* Lines 143-175: the try block of one iteration.
TryBody(st, source, http, tys, term) ==
    LET r == search(http)
    IN  IF r.raised THEN [raised |-> TRUE, exc |-> r.exc, st |-> st]
        ELSE LET m == MergeResult(st, source, r.value, tys, term)
             IN  IF m.raised THEN m ELSE AddTook(m.st, r.value)

\* A handler that starts the aggregate afresh (mutant of ExceptBranch).
ExceptBranchDropsResults(st) ==
    [all_results |-> [results |-> <<>>, size |-> 0, took |-> 0],
     successful_sources |-> 0]

\* Lines 177-179: the handler prints the error and continues with the
\* aggregate as the try block left it.
ExceptBranch(st) == st

\* Lines 142-179: one iteration of the loop.
LoopBody(st, source, http, tys, term) ==
    LET b == TryBody(st, source, http, tys, term)
    IN  IF ~b.raised THEN [st |-> b.st, error |-> FALSE, escaped |-> FALSE]
        ELSE IF b.exc \in ExceptionClasses
             THEN [st |-> ExceptBranch(b.st), error |-> TRUE, escaped |-> FALSE]
             ELSE [st |-> b.st, error |-> FALSE, escaped |-> TRUE]

EmptyResults == [results |-> <<>>, size |-> 0, took |-> 0]

----------------------------------------------------------------------------
(* Inputs of the search loop *)

rec1 == Dict(<< <<"email", NA>>, <<"password", "hunter2">> >>)
rec2 == Dict(<< <<"username", "">>, <<"url", None>>, <<"email", "x@y.z">> >>)
rec3 == Dict(<< <<"url", "http://h.example">>, <<"username", "bob">> >>)

Res1 == << <<"db1", <<rec1, rec2>> >> >>
Res2 == << <<"db1", <<rec3>> >>, <<"db2", <<rec2, rec1>> >> >>
Res3 == << <<"db1", <<rec1>> >>, <<"db2", <<rec3, NonDict>> >> >>

DbNames == {"db1", "db2"}

Bodies ==
    { [took |-> JNum(1)],
      [results |-> Res1, size |-> JNum(0), took |-> JNum(2)],
      [results |-> Res1, size |-> JNum(2), took |-> JNum(4)],
      [results |-> Res1, size |-> JNum(3), took |-> JNum(8)],
      [results |-> Res2, size |-> JNum(3)],
      [results |-> Res3, size |-> JNum(3), took |-> JNum(16)],
      [results |-> Res2, size |-> JNum(3), took |-> JNull],
      [results |-> Res1, took |-> JNum(32)],
      [results |-> Res1, size |-> JNull, took |-> JNum(64)] }

ErrorStatuses == {400, 401, 402, 403, 500, 404}

HttpResponses ==
    {TransportFailure}
    \cup {HttpReply(s, [took |-> JNum(0)]) : s \in ErrorStatuses}
    \cup {HttpReply(200, b) : b \in Bodies}

\* search_email_all_sources, search_domain_all_sources,
\* search_username_all_sources (lines 184-194), and a direct call with a
\* type the loop does not normalise.
Calls ==
    { [types |-> <<"email">>, search_term |-> "a@b.com"],
      [types |-> <<"url">>, search_term |-> "site.com"],
      [types |-> <<"username">>, search_term |-> "alice"],
      [types |-> <<"password">>, search_term |-> "hunter2"] }

----------------------------------------------------------------------------
(* KeyscoreAPI.count (lines 93-132) *)

count(http) ==
    IF ~http.sent THEN Raise("Exception", "Count request failed")
    ELSE IF http.status = 200 THEN Return(http.json)
    ELSE IF http.status = 400 THEN Raise("Exception", "Bad Request: Invalid request body")
    ELSE IF http.status = 401 THEN Raise("Exception", "Unauthorized: Missing or invalid API key")
    ELSE IF http.status = 402 THEN Raise("Exception", "Payment Required: Insufficient credits")
    ELSE Raise("Exception", "Unexpected status code")

----------------------------------------------------------------------------
(* count_all_sources (lines 420-443) *)

\* Lines 429-434: the try block of one iteration.  st is
\* [total_count, source_counts].  The entry is written before the addition,
\* which raises when the count is not a number.
CountTryBody(st, source, http) ==
    LET r == count(http)
    IN  IF r.raised THEN [raised |-> TRUE, exc |-> r.exc, st |-> st]
        ELSE LET cnt == Get(r.value, "count", JNum(0))
                 stored == [st EXCEPT !.source_counts = DictSet(@, source, cnt)]
             IN  IF cnt.t # "num"
                 THEN [raised |-> TRUE, exc |-> "TypeError", st |-> stored]
                 ELSE [raised |-> FALSE, exc |-> "",
                       st |-> [stored EXCEPT !.total_count = @ + cnt.v]]

\* A handler that only prints the error (mutant of CountExceptBranch).
CountExceptBranchPrintsOnly(st, source) == st

\* Lines 435-437: the handler records 0 for the source.
CountExceptBranch(st, source) ==
    [st EXCEPT !.source_counts = DictSet(@, source, JNum(0))]

\* Lines 427-437: one iteration of the loop.
CountLoopBody(st, source, http) ==
    LET b == CountTryBody(st, source, http)
    IN  IF ~b.raised THEN [st |-> b.st, escaped |-> FALSE]
        ELSE IF b.exc \in ExceptionClasses
             THEN [st |-> CountExceptBranch(b.st, source), escaped |-> FALSE]
             ELSE [st |-> b.st, escaped |-> TRUE]

\* Lines 439-443.
CountReturnValue(st) ==
    [total_count |-> JNum(st.total_count), counts |-> st.source_counts, took |-> JNum(0)]

----------------------------------------------------------------------------
(* print_count_results (lines 376-418) *)

PageSize == 10000

Line(kind, src, n) == [kind |-> kind, src |-> src, n |-> n]

\* Lines 391 and 415.
PagesNeeded(cnt) == (cnt \div PageSize) + 1

\* Lines 388-392 and 412-416: the estimate for a count > 0.
EstimateLines(cnt) ==
    <<Line("credits_header", "", 0), Line("single_page", "", 1)>>
    \o (IF cnt > PageSize THEN <<Line("all_data", "", PagesNeeded(cnt))>> ELSE <<>>)

\* Lines 405-409: the breakdown, one line per entry of counts.
RECURSIVE BreakdownLines(_)
BreakdownLines(counts) ==
    IF counts = <<>> THEN <<>>
    ELSE <<Line(IF Head(counts)[2].v > 0 THEN "source_records" ELSE "source_no_records",
                Head(counts)[1], Head(counts)[2].v)>>
         \o BreakdownLines(Tail(counts))

\* Lines 383-418, after the heading lines 378-381.
PrintCountLines(data) ==
    IF "count" \in DOMAIN data THEN
        LET cnt == data["count"].v
        IN  <<Line("total", "", cnt)>>
            \o (IF cnt > 0 THEN EstimateLines(cnt) ELSE <<Line("no_records", "", 0)>>)
    ELSE IF "counts" \in DOMAIN data /\ "total_count" \in DOMAIN data THEN
        LET total == data["total_count"].v
        IN  <<Line("total", "", total), Line("took", "", Get(data, "took", JNum(0)).v)>>
            \o BreakdownLines(data["counts"])
            \o (IF total > 0 THEN EstimateLines(total) ELSE <<>>)
    ELSE <<Line("unexpected_format", "", 0)>>

----------------------------------------------------------------------------
(* Inputs of the count loop *)

CountValues == {0, 1, 10000, 10001, 20000, 25000}

CountBodies ==
    {[count |-> JNum(c)] : c \in CountValues}
    \cup { [count |-> JNull],
           [total_count |-> JNum(7), took |-> JNum(3)] }

CountErrorStatuses == {400, 401, 402, 500}

CountHttpResponses ==
    {TransportFailure}
    \cup {HttpReply(s, [took |-> JNum(0)]) : s \in CountErrorStatuses}
    \cup {HttpReply(200, b) : b \in CountBodies}

----------------------------------------------------------------------------
(* Text helpers of the renderer: str.title, str.lower, str.upper and       *)
(* str.replace('_', ' ') on the names the model uses.                      *)

Title(str) ==
    CASE str = "email" -> "Email"          [] str = "Email" -> "Email"
      [] str = "login" -> "Login"          [] str = "username" -> "Username"
      [] str = "user" -> "User"            [] str = "profile" -> "Profile"
      [] str = "nick" -> "Nick"            [] str = "password" -> "Password"
      [] str = "pass" -> "Pass"            [] str = "pwd" -> "Pwd"
      [] str = "url" -> "Url"              [] str = "website" -> "Website"
      [] str = "site" -> "Site"            [] str = "domain" -> "Domain"
      [] str = "name" -> "Name"            [] str = "ip_address" -> "Ip_Address"
      [] str = "ip address" -> "Ip Address"
      [] str = "URL" -> "Url"

Lower(str) ==
    CASE str = "Email" -> "email"
      [] str = "URL" -> "url"
      [] OTHER -> str

Upper(str) ==
    CASE str = "email" -> "EMAIL"          [] str = "domain" -> "DOMAIN"
      [] str = "username" -> "USERNAME"    [] str = "wildcard" -> "WILDCARD"

ReplaceUnderscore(str) ==
    CASE str = "ip_address" -> "ip address"
      [] OTHER -> str

Letters ==
    {"a", "b", "c", "d", "e", "f", "g", "h", "i", "j", "k", "l", "m", "n", "o",
     "p", "q", "r", "s", "t", "u", "v", "w", "x", "y", "z",
     "A", "B", "C", "D", "E", "F", "G", "H", "I", "J", "K", "L", "M", "N", "O",
     "P", "Q", "R", "S", "T", "U", "V", "W", "X", "Y", "Z"}
Digits == {"0", "1", "2", "3", "4", "5", "6", "7", "8", "9"}

\* str.isalnum on one character
IsAlnum(c) == c \in Letters \cup Digits

----------------------------------------------------------------------------
(* Output lines.  group names the loop that wrote a field line.            *)

Out(kind, label, value, n) ==
    [kind |-> kind, group |-> "", label |-> label, value |-> value, n |-> n]
FieldLine(group, label, value) ==
    [kind |-> "field", group |-> group, label |-> label, value |-> value, n |-> 0]

priority_fields == <<"email", "login", "username", "user", "profile", "nick">>
password_fields == <<"password", "pass", "pwd">>
url_fields == <<"url", "website", "site", "domain">>

Range(seq) == {seq[k] : k \in 1..Len(seq)}

\* `value and value != 'N/A'`
Shown(value) == value # "" /\ value # None /\ value # NA

----------------------------------------------------------------------------
(* print_results (lines 196-251) *)

\* The loop of a group without its break (mutant of PrintGroupLines).
RECURSIVE PrintGroupLinesNoBreak(_, _, _)
PrintGroupLinesNoBreak(items, fields, group) ==
    IF fields = <<>> THEN <<>>
    ELSE (IF HasKey(items, Head(fields)) /\ Shown(Lookup(items, Head(fields)))
          THEN <<FieldLine(group, Title(Head(fields)), Lookup(items, Head(fields)))>>
          ELSE <<>>)
         \o PrintGroupLinesNoBreak(items, Tail(fields), group)

\* Lines 224-227, 230-233, 236-239: the first field of the list that the
\* record holds with a shown value, then break.
RECURSIVE PrintGroupLines(_, _, _)
PrintGroupLines(items, fields, group) ==
    IF fields = <<>> THEN <<>>
    ELSE IF HasKey(items, Head(fields)) /\ Shown(Lookup(items, Head(fields)))
         THEN <<FieldLine(group, Title(Head(fields)), Lookup(items, Head(fields)))>>
         ELSE PrintGroupLines(items, Tail(fields), group)

\* Lines 242-245.
RECURSIVE PrintOtherLines(_, _)
PrintOtherLines(items, shown_fields) ==
    IF items = <<>> THEN <<>>
    ELSE (IF Lower(Head(items)[1]) \notin shown_fields /\ Shown(Head(items)[2])
          THEN <<FieldLine("other", Title(ReplaceUnderscore(Head(items)[1])),
                           Head(items)[2])>>
          ELSE <<>>)
         \o PrintOtherLines(Tail(items), shown_fields)

\* Lines 218-247 on one record that is a dict.
PrintRecordLines(items) ==
    PrintGroupLines(items, priority_fields, "identity")
    \o PrintGroupLines(items, password_fields, "credential")
    \o PrintGroupLines(items, url_fields, "location")
    \o PrintOtherLines(items, Range(priority_fields \o password_fields \o url_fields))
    \o <<Out("record_end", "", "", 0)>>

\* Lines 214-247: the records of one bucket from the j-th on; total_records
\* is the running count.  `field in record` raises on an item that is no dict.
RECURSIVE PrintRecords(_, _, _)
PrintRecords(records, j, total_records) ==
    IF j > Len(records)
    THEN [raised |-> FALSE, lines |-> <<>>, total_records |-> total_records]
    ELSE LET heading == Out("record", "", "", total_records + 1)
         IN  IF ~records[j].dict
             THEN [raised |-> TRUE, lines |-> <<heading>>,
                   total_records |-> total_records + 1]
             ELSE LET rest == PrintRecords(records, j + 1, total_records + 1)
                  IN  [rest EXCEPT !.lines =
                          <<heading>> \o PrintRecordLines(records[j].items) \o @]

\* Lines 209-247: the loop over the buckets.
RECURSIVE PrintBuckets(_, _)
PrintBuckets(buckets, total_records) ==
    IF buckets = <<>>
    THEN [raised |-> FALSE, lines |-> <<>>, total_records |-> total_records]
    ELSE LET top == <<Out("database", Head(buckets)[1], "", 0),
                      Out("records_found", "", "", Len(Head(buckets)[2])),
                      Out("rule", "", "", 40)>>
             r == PrintRecords(Head(buckets)[2], 1, total_records)
         IN  IF r.raised THEN [r EXCEPT !.lines = top \o @]
             ELSE LET rest == PrintBuckets(Tail(buckets), r.total_records)
                  IN  [rest EXCEPT !.lines = top \o r.lines \o @]

\* Lines 198-251.
PrintResultsLines(results) ==
    IF "results" \in DOMAIN results THEN
        LET top == <<Out("title", "", "", 0),
                     Out("total_results", "", "", Get(results, "size", 0)),
                     Out("took", "", "", Get(results, "took", 0)),
                     Out("rule", "", "", 60)>>
        IN  IF Get(results, "size", 0) = 0
            THEN [raised |-> FALSE, lines |-> top \o <<Out("no_results", "", "", 0)>>]
            ELSE LET b == PrintBuckets(results["results"], 0)
                 IN  [raised |-> b.raised,
                      lines |-> top \o b.lines \o
                                (IF b.raised THEN <<>>
                                 ELSE <<Out("total_displayed", "", "", b.total_records)>>)]
    ELSE [raised |-> FALSE, lines |-> <<Out("unexpected_format", "", "", 0)>>]

----------------------------------------------------------------------------
(* save_results_to_file (lines 253-374) *)

\* Lines 305-308, 311-314, 317-320.
RECURSIVE FileGroupLines(_, _, _)
FileGroupLines(items, fields, group) ==
    IF fields = <<>> THEN <<>>
    ELSE IF HasKey(items, Head(fields)) /\ Shown(Lookup(items, Head(fields)))
         THEN <<FieldLine(group, Title(Head(fields)), Lookup(items, Head(fields)))>>
         ELSE FileGroupLines(items, Tail(fields), group)

\* The last loop with the names compared as written (mutant of
\* FileOtherLines).
RECURSIVE FileOtherLinesCaseSensitive(_, _)
FileOtherLinesCaseSensitive(items, shown_fields) ==
    IF items = <<>> THEN <<>>
    ELSE (IF Head(items)[1] \notin shown_fields /\ Shown(Head(items)[2])
          THEN <<FieldLine("other", Title(ReplaceUnderscore(Head(items)[1])),
                           Head(items)[2])>>
          ELSE <<>>)
         \o FileOtherLinesCaseSensitive(Tail(items), shown_fields)

\* Lines 323-326.
RECURSIVE FileOtherLines(_, _)
FileOtherLines(items, shown_fields) ==
    IF items = <<>> THEN <<>>
    ELSE (IF Lower(Head(items)[1]) \notin shown_fields /\ Shown(Head(items)[2])
          THEN <<FieldLine("other", Title(ReplaceUnderscore(Head(items)[1])),
                           Head(items)[2])>>
          ELSE <<>>)
         \o FileOtherLines(Tail(items), shown_fields)

\* Lines 299-328 on one record that is a dict.
FileRecordLines(items) ==
    FileGroupLines(items, priority_fields, "identity")
    \o FileGroupLines(items, password_fields, "credential")
    \o FileGroupLines(items, url_fields, "location")
    \o FileOtherLines(items, Range(priority_fields \o password_fields \o url_fields))
    \o <<Out("record_end", "", "", 0)>>

\* Lines 290-328.
RECURSIVE FileRecords(_, _, _)
FileRecords(records, j, record_count) ==
    IF j > Len(records)
    THEN [raised |-> FALSE, lines |-> <<>>, record_count |-> record_count]
    ELSE LET heading == Out("record", "", "", record_count + 1)
         IN  IF ~records[j].dict
             THEN [raised |-> TRUE, lines |-> <<heading>>,
                   record_count |-> record_count + 1]
             ELSE LET rest == FileRecords(records, j + 1, record_count + 1)
                  IN  [rest EXCEPT !.lines =
                          <<heading>> \o FileRecordLines(records[j].items) \o @]

\* Lines 284-330.
RECURSIVE FileBuckets(_, _)
FileBuckets(buckets, record_count) ==
    IF buckets = <<>>
    THEN [raised |-> FALSE, lines |-> <<>>, record_count |-> record_count]
    ELSE LET top == <<Out("rule", "", "", 60),
                      Out("database", Head(buckets)[1], "", 0),
                      Out("records_found", "", "", Len(Head(buckets)[2])),
                      Out("rule", "", "", 40)>>
             r == FileRecords(Head(buckets)[2], 1, record_count)
         IN  IF r.raised THEN [r EXCEPT !.lines = top \o @]
             ELSE LET rest == FileBuckets(Tail(buckets), r.record_count)
                  IN  [rest EXCEPT !.lines =
                          top \o r.lines \o <<Out("blank", "", "", 0)>> \o @]

\* Line 257: the characters of the term that the file name keeps.
Sanitize(search_term_chars) ==
    SelectSeq(search_term_chars, LAMBDA c : IsAlnum(c) \/ c \in {"-", "_", "."})

\* Line 258: f"{safe_term}-{search_type}-output.txt"
Filename(args) ==
    [safe_term |-> Sanitize(args.search_term), search_type |-> args.search_type,
     suffix |-> "-output.txt"]

\* Lines 265-273.
FileHeader(results, args) ==
    <<Out("rule", "", "", 80), Out("title", "", "", 0), Out("rule", "", "", 80),
      Out("search_term", "", "", 0), Out("search_type", args.search_type, "", 0),
      Out("generated", "", "", 0),
      Out("total_results", "", "", Get(results, "size", 0)),
      Out("duration", "", "", Get(results, "took", 0)),
      Out("rule", "", "", 80), Out("blank", "", "", 0)>>

\* A summary that repeats the size of the results for the total (mutant of
\* FileSummary).
FileSummaryReportsSize(results, args, record_count) ==
    <<Out("rule", "", "", 80), Out("summary_title", "", "", 0), Out("rule", "", "", 80),
      Out("total_records", "", "", Get(results, "size", 0)),
      Out("databases", "", "", Len(Get(results, "results", <<>>))),
      Out("search_term", "", "", 0),
      Out("search_type", Upper(args.search_type), "", 0),
      Out("generated", "", "", 0), Out("rule", "", "", 80)>>

\* Lines 333-341.
FileSummary(results, args, record_count) ==
    <<Out("rule", "", "", 80), Out("summary_title", "", "", 0), Out("rule", "", "", 80),
      Out("total_records", "", "", record_count),
      Out("databases", "", "", Len(Get(results, "results", <<>>))),
      Out("search_term", "", "", 0),
      Out("search_type", Upper(args.search_type), "", 0),
      Out("generated", "", "", 0), Out("rule", "", "", 80)>>

\* Lines 260-357: the try block.  flt is the failure the file system raises,
\* at the open, at the first write, at the first write of the summary, at
\* the close or at os.path.getsize; a list item that is no dict raises
\* TypeError at `field in record`.
SaveTryBody(results, args, flt) ==
    LET ok(lines, msg) == [raised |-> FALSE, exc |-> "", lines |-> lines, msg |-> msg]
        fail(e, lines) == [raised |-> TRUE, exc |-> e, lines |-> lines, msg |-> ""]
        header == FileHeader(results, args)
    IN  IF flt.at = "open" THEN fail(flt.exc, <<>>)
        ELSE IF flt.at = "write_header" THEN fail(flt.exc, <<>>)
        ELSE IF Get(results, "size", 0) = 0 THEN
            LET lines == header \o <<Out("no_results", "", "", 0)>>
            IN  IF flt.at = "close" THEN fail(flt.exc, lines)
                ELSE ok(lines, "empty_saved")
        ELSE
            LET b == FileBuckets(Get(results, "results", <<>>), 0)
                body == header \o b.lines
                all == body \o FileSummary(results, args, b.record_count)
            IN  IF b.raised THEN fail("TypeError", body)
                ELSE IF flt.at = "write_summary" THEN fail(flt.exc, body)
                ELSE IF flt.at = "close" THEN fail(flt.exc, all)
                ELSE IF flt.at = "getsize" THEN fail(flt.exc, all)
                ELSE ok(all, "saved")

OSErrorClasses == {"PermissionError", "OSError"}
SaveExceptionClasses == OSErrorClasses \cup {"MemoryError", "TypeError", "RuntimeError"}

\* Handlers without the final `except Exception` (mutant of SaveExcept).
SaveExceptNoCatchAll(exc) ==
    IF exc = "PermissionError" THEN [caught |-> TRUE, msg |-> "permission_denied"]
    ELSE IF exc \in OSErrorClasses THEN [caught |-> TRUE, msg |-> "file_system_error"]
    ELSE IF exc = "MemoryError" THEN [caught |-> TRUE, msg |-> "not_enough_memory"]
    ELSE [caught |-> FALSE, msg |-> ""]

\* Lines 359-374: the handlers, in their order; each returns None.
SaveExcept(exc) ==
    IF exc = "PermissionError" THEN [caught |-> TRUE, msg |-> "permission_denied"]
    ELSE IF exc \in OSErrorClasses THEN [caught |-> TRUE, msg |-> "file_system_error"]
    ELSE IF exc = "MemoryError" THEN [caught |-> TRUE, msg |-> "not_enough_memory"]
    ELSE IF exc \in SaveExceptionClasses THEN [caught |-> TRUE, msg |-> "unexpected_error"]
    ELSE [caught |-> FALSE, msg |-> ""]

\* Lines 253-374.
save_results_to_file(results, args, flt) ==
    LET b == SaveTryBody(results, args, flt)
    IN  IF ~b.raised
        THEN [ret |-> Filename(args), lines |-> b.lines, msg |-> b.msg, escaped |-> FALSE]
        ELSE LET h == SaveExcept(b.exc)
             IN  [ret |-> NoPath, lines |-> b.lines, msg |-> h.msg, escaped |-> ~h.caught]

----------------------------------------------------------------------------
(* Inputs of the renderer and the writer *)

FieldPool == {"email", "username", "password", "url", "Email", "ip_address", "name"}
ValuePool == {NA, "", "secret"}

\* The dicts of n fields from FieldPool, in every insertion order.
RECURSIVE RecordsOfLen(_)
RecordsOfLen(n) ==
    IF n = 0 THEN {<<>>}
    ELSE UNION { {Append(d, <<f, v>>) : f \in FieldPool \ Keys(d), v \in ValuePool} :
                 d \in RecordsOfLen(n - 1) }

GeneratedRecords == UNION {RecordsOfLen(n) : n \in 0..MaxFields}

full1 == Dict(<< <<"nick", "neo">>, <<"login", "tanderson">>, <<"pwd", "whiterabbit">>,
                 <<"password", None>>, <<"domain", "matrix.example">>,
                 <<"ip_address", "10.0.0.1">>, <<"URL", "http://m.example">> >>)
full2 == Dict(<< <<"name", "Trinity">>, <<"email", None>>, <<"user", "trin">>,
                 <<"site", "N/A">>, <<"website", "z.example">>, <<"pass", "">> >>)

CuratedResults ==
    { [took |-> 5],
      [results |-> <<>>, size |-> 0, took |-> 0],
      [results |-> << <<"*xkeyscore>db1", <<full1, full2>> >>,
                      <<"*snusbase>db1", <<full2>> >> >>, size |-> 3, took |-> 7],
      [results |-> << <<"*xkeyscore>db1", <<full1>> >> >>, size |-> 0, took |-> 7],
      [results |-> << <<"*xkeyscore>db1", <<full1>> >>,
                      <<"*xkeyscore>db2", <<full2, NonDict>> >> >>, size |-> 3, took |-> 1],
      [results |-> << <<"db1", <<full2, full1>> >> >>, took |-> 9, size |-> 5] }

RenderInputs ==
    CuratedResults
    \cup {[results |-> << <<"*xkeyscore>db1", <<Dict(d)>> >> >>, size |-> 1, took |-> 2] :
            d \in GeneratedRecords}

SaveCalls ==
    { [search_term |-> <<"a", "@", "b", ".", "c", "o">>, search_type |-> "email"],
      [search_term |-> <<"*", ".", "x", "-", "1", "_", "/">>, search_type |-> "wildcard"] }

NoFault == [at |-> "never", exc |-> ""]
Faults ==
    { [at |-> "open", exc |-> "PermissionError"],
      [at |-> "open", exc |-> "OSError"],
      [at |-> "write_header", exc |-> "OSError"],
      [at |-> "write_summary", exc |-> "MemoryError"],
      [at |-> "write_summary", exc |-> "RuntimeError"],
      [at |-> "close", exc |-> "OSError"],
      [at |-> "getsize", exc |-> "OSError"] }

----------------------------------------------------------------------------
(* The search loop as a state machine *)

SearchIdle ==
    /\ types = <<"email">> /\ search_term = "" /\ i = 0
    /\ all_results = EmptyResults /\ successful_sources = 0
    /\ pc = "idle" /\ responses = <<>> /\ queried = <<>> /\ errors = <<>>

CountIdle ==
    /\ c_i = 0 /\ total_count = 0 /\ source_counts = <<>> /\ c_pc = "idle"
    /\ count_responses = <<>> /\ count_data = [took |-> JNum(0)] /\ credit_lines = <<>>

RenderIdle ==
    /\ r_results = [size |-> 0] /\ console = <<>> /\ file = <<>>
    /\ save_args = [search_term |-> <<>>, search_type |-> ""]
    /\ fault = [at |-> "never", exc |-> ""]
    /\ save_ret = NoPath /\ save_msg = "" /\ r_pc = "idle"

\* Lines 139-140, for each of the calls.
Init ==
    /\ \E call \in Calls : types = call.types /\ search_term = call.search_term
    /\ i = 0
    /\ all_results = EmptyResults
    /\ successful_sources = 0
    /\ pc = "loop"
    /\ responses = <<>>
    /\ queried = <<>>
    /\ errors = <<>>
    /\ CountIdle
    /\ RenderIdle

\* Lines 142-179: one iteration, on the next source of the catalog.
SearchIteration ==
    /\ pc = "loop"
    /\ i < Len(all_sources)
    /\ \E http \in HttpResponses :
         LET source == all_sources[i + 1]
             b == LoopBody([all_results |-> all_results,
                            successful_sources |-> successful_sources],
                           source, http, types, search_term)
         IN  /\ all_results' = b.st.all_results
             /\ successful_sources' = b.st.successful_sources
             /\ errors' = IF b.error THEN Append(errors, source) ELSE errors
             /\ responses' = Append(responses, http)
             /\ queried' = Append(queried, source)
             /\ pc' = IF b.escaped THEN "escaped" ELSE "loop"
    /\ i' = i + 1
    /\ UNCHANGED <<types, search_term>>
    /\ UNCHANGED count_vars
    /\ UNCHANGED render_vars

\* Lines 181-182: the loop is over, all_results is returned.
SearchReturn ==
    /\ pc = "loop"
    /\ i = Len(all_sources)
    /\ pc' = "done"
    /\ UNCHANGED <<types, search_term, i, all_results, successful_sources,
                   responses, queried, errors>>
    /\ UNCHANGED count_vars
    /\ UNCHANGED render_vars

Next == SearchIteration \/ SearchReturn

Spec == Init /\ [][Next]_vars

\* The loop goes on: every call of self.search returns or raises (the request
\* has a timeout, line 71), and the statements after the loop are reached.
SpecFair == Spec /\ WF_vars(SearchIteration) /\ WF_vars(SearchReturn)

----------------------------------------------------------------------------
(* The count loop and the count printer as a state machine *)

NoCountData == [took |-> JNum(0)]

\* Lines 424-425; or print_count_results handed the answer of one count call.
CountInit ==
    /\ SearchIdle
    /\ RenderIdle
    /\ c_i = 0 /\ total_count = 0 /\ source_counts = <<>>
    /\ count_responses = <<>> /\ credit_lines = <<>>
    /\ \/ c_pc = "loop" /\ count_data = NoCountData
       \/ c_pc = "done" /\ count_data \in {[count |-> JNum(c)] : c \in CountValues}

\* Lines 427-437: one iteration, on the next source of the catalog.
CountIteration ==
    /\ c_pc = "loop"
    /\ c_i < Len(all_sources)
    /\ \E http \in CountHttpResponses :
         LET b == CountLoopBody([total_count |-> total_count,
                                 source_counts |-> source_counts],
                                all_sources[c_i + 1], http)
         IN  /\ total_count' = b.st.total_count
             /\ source_counts' = b.st.source_counts
             /\ count_responses' = Append(count_responses, http)
             /\ c_pc' = IF b.escaped THEN "escaped" ELSE "loop"
    /\ c_i' = c_i + 1
    /\ UNCHANGED <<count_data, credit_lines>>
    /\ UNCHANGED search_vars
    /\ UNCHANGED render_vars

\* Lines 439-443: the loop is over, the counts are returned.
CountReturn ==
    /\ c_pc = "loop"
    /\ c_i = Len(all_sources)
    /\ count_data' = CountReturnValue([total_count |-> total_count,
                                       source_counts |-> source_counts])
    /\ c_pc' = "done"
    /\ UNCHANGED <<c_i, total_count, source_counts, count_responses, credit_lines>>
    /\ UNCHANGED search_vars
    /\ UNCHANGED render_vars

\* Lines 376-418: the counts are printed.
PrintCountResults ==
    /\ c_pc = "done"
    /\ credit_lines' = PrintCountLines(count_data)
    /\ c_pc' = "printed"
    /\ UNCHANGED <<c_i, total_count, source_counts, count_responses, count_data>>
    /\ UNCHANGED search_vars
    /\ UNCHANGED render_vars

CountNext == CountIteration \/ CountReturn \/ PrintCountResults

SpecCount == CountInit /\ [][CountNext]_vars

----------------------------------------------------------------------------
(* The renderer and the writer as a state machine *)

RenderInit ==
    /\ SearchIdle
    /\ CountIdle
    /\ r_results \in RenderInputs
    /\ save_args \in SaveCalls
    /\ fault = NoFault
    /\ console = <<>> /\ file = <<>>
    /\ save_ret = NoPath /\ save_msg = ""
    /\ r_pc = "start"

\* print_results(results), lines 196-251.
PrintResults ==
    /\ r_pc = "start"
    /\ LET p == PrintResultsLines(r_results)
       IN  /\ console' = p.lines
           /\ r_pc' = IF p.raised THEN "print_escaped" ELSE "printed"
    /\ UNCHANGED <<r_results, save_args, fault, file, save_ret, save_msg>>
    /\ UNCHANGED search_vars
    /\ UNCHANGED count_vars

\* save_results_to_file(results, search_term, search_type), lines 253-374,
\* after the results were printed or without printing them.
SaveResultsToFile ==
    /\ r_pc \in {"start", "printed"}
    /\ \E flt \in Faults \cup {NoFault} :
         LET w == save_results_to_file(r_results, save_args, flt)
         IN  /\ fault' = flt
             /\ file' = w.lines
             /\ save_ret' = w.ret
             /\ save_msg' = w.msg
             /\ r_pc' = IF w.escaped THEN "save_escaped" ELSE "saved"
    /\ UNCHANGED <<r_results, save_args, console>>
    /\ UNCHANGED search_vars
    /\ UNCHANGED count_vars

RenderNext == PrintResults \/ SaveResultsToFile

SpecRender == RenderInit /\ [][RenderNext]_vars

----------------------------------------------------------------------------
(* The two loops on a catalog in any order.  self.all_sources (lines       *)
(* 28-30) is a list the loops go through once; processing the catalog in   *)
(* another order is the same loops with the sources taken in that order,   *)
(* so each iteration takes any source not taken yet.                       *)

\* Outcomes of a search call: a failed call, a reply without results, two
\* replies with buckets of the same database names, a reply whose merge
\* fails at a record, and replies whose size or took cannot be added.
AnyOrderResponses ==
    {TransportFailure}
    \cup {HttpReply(200, b) :
            b \in { [took |-> JNum(1)],
                    [results |-> Res1, size |-> JNum(2), took |-> JNum(4)],
                    [results |-> Res2, size |-> JNum(3)],
                    [results |-> Res3, size |-> JNum(3), took |-> JNum(16)],
                    [results |-> Res2, size |-> JNum(3), took |-> JNull],
                    [results |-> Res1, size |-> JNull, took |-> JNum(64)] }}

AnyOrderCalls == {call \in Calls : call.types[1] = "email"}

\* Outcomes of a count call: a failed call, two counts, a count that cannot
\* be added and a reply without a count.
AnyOrderCountResponses ==
    {TransportFailure}
    \cup {HttpReply(200, b) :
            b \in { [count |-> JNum(1)], [count |-> JNum(10000)],
                    [count |-> JNull],
                    [total_count |-> JNum(7), took |-> JNum(3)] }}

\* Either loop starts.
AnyOrderInit ==
    \/ /\ Init
       /\ \E call \in AnyOrderCalls : types = call.types
    \/ /\ CountInit
       /\ c_pc = "loop"

\* Lines 142-179 on a source not taken yet.
AnyOrderSearchIteration ==
    /\ pc = "loop"
    /\ i < Len(all_sources)
    /\ \E source \in Range(all_sources) \ Range(queried) :
         \E http \in AnyOrderResponses :
           LET b == LoopBody([all_results |-> all_results,
                              successful_sources |-> successful_sources],
                             source, http, types, search_term)
           IN  /\ all_results' = b.st.all_results
               /\ successful_sources' = b.st.successful_sources
               /\ errors' = IF b.error THEN Append(errors, source) ELSE errors
               /\ responses' = Append(responses, http)
               /\ queried' = Append(queried, source)
               /\ pc' = IF b.escaped THEN "escaped" ELSE "loop"
    /\ i' = i + 1
    /\ UNCHANGED <<types, search_term>>
    /\ UNCHANGED count_vars
    /\ UNCHANGED render_vars

\* Lines 427-437 on a source not taken yet.
AnyOrderCountIteration ==
    /\ c_pc = "loop"
    /\ c_i < Len(all_sources)
    /\ \E source \in Range(all_sources) \ Keys(source_counts) :
         \E http \in AnyOrderCountResponses :
           LET b == CountLoopBody([total_count |-> total_count,
                                   source_counts |-> source_counts],
                                  source, http)
           IN  /\ total_count' = b.st.total_count
               /\ source_counts' = b.st.source_counts
               /\ count_responses' = Append(count_responses, http)
               /\ c_pc' = IF b.escaped THEN "escaped" ELSE "loop"
    /\ c_i' = c_i + 1
    /\ UNCHANGED <<count_data, credit_lines>>
    /\ UNCHANGED search_vars
    /\ UNCHANGED render_vars

AnyOrderNext ==
    \/ AnyOrderSearchIteration
    \/ SearchReturn
    \/ AnyOrderCountIteration
    \/ CountReturn

SpecAnyOrder == AnyOrderInit /\ [][AnyOrderNext]_vars

----------------------------------------------------------------------------
(* What the history says about each processed source *)

SourceAt(k) == all_sources[k]
SearchOutcome(k) == search(responses[k])
SearchFailed(k) == SearchOutcome(k).raised
ResponseBody(k) == responses[k].json
ReportedResults(k) == Get(ResponseBody(k), "results", <<>>)
ReportedSize(k) == Get(ResponseBody(k), "size", JNum(0))
ReportedTook(k) == Get(ResponseBody(k), "took", JNum(0))
Errored(k) == \E e \in 1..Len(errors) : errors[e] = SourceAt(k)

KeysOf(source) == {Key(source, db) : db \in DbNames}
BucketsOf(source) ==
    {b \in 1..Len(all_results.results) : all_results.results[b][1] \in KeysOf(source)}

\* The state the loop reaches on a list of <<source, response>> pairs.
RECURSIVE RunAcrossSources(_, _, _, _)
RunAcrossSources(st, pairs, tys, term) ==
    IF pairs = <<>> THEN st
    ELSE RunAcrossSources(
             LoopBody(st, Head(pairs)[1], Head(pairs)[2], tys, term).st,
             Tail(pairs), tys, term)

\* The processed sources whose index is in keep, with their responses, in
\* catalog order from index k on.
RECURSIVE PairsFrom(_, _)
PairsFrom(k, keep) ==
    IF k > i THEN <<>>
    ELSE (IF k \in keep THEN << <<SourceAt(k), responses[k]>> >> ELSE <<>>)
         \o PairsFrom(k + 1, keep)

LoopState == [all_results |-> all_results, successful_sources |-> successful_sources]
StartState == [all_results |-> EmptyResults, successful_sources |-> 0]

----------------------------------------------------------------------------
(* C1 *)

\* C1: no error escapes the loop, and after any number of sources the
\* aggregate and successful_sources are what the loop computes on the
\* catalog without the sources whose search call failed: such a source is
\* not counted and leaves every other source's buckets, size and elapsed
\* contributions as they would be without it.
FailureIsolation ==
    /\ pc # "escaped"
    /\ pc \in {"loop", "done"} =>
         LET succeeded == {k \in 1..i : ~SearchFailed(k)}
         IN  /\ LoopState = RunAcrossSources(StartState, PairsFrom(1, succeeded),
                                             types, search_term)
             /\ \A k \in 1..i : SearchFailed(k) => BucketsOf(SourceAt(k)) = {}
             /\ successful_sources <= Cardinality(succeeded)

\* The call has returned; a source failed between two sources whose buckets
\* are in the aggregate.
FailureIsolationWitness ==
    /\ pc = "done"
    /\ \E a, x, b \in 1..i :
         /\ a < x /\ x < b
         /\ SearchFailed(x)
         /\ BucketsOf(SourceAt(a)) # {}
         /\ BucketsOf(SourceAt(b)) # {}

----------------------------------------------------------------------------
(* C2 *)

RECURSIVE TotalRecords(_)
TotalRecords(results) ==
    IF results = <<>> THEN 0
    ELSE Len(Head(results)[2]) + TotalRecords(Tail(results))

\* C2: after every processed source and in the returned aggregate, size is
\* the sum of the lengths of the record lists of all buckets.
SizeIsSumOfBuckets ==
    pc \in {"loop", "done"} => all_results.size = TotalRecords(all_results.results)

----------------------------------------------------------------------------
(* C3 *)

\* C3: a source whose processing ended in the error branch has no bucket in
\* the aggregate, and size, successful_sources (and took) are what the loop
\* computes without that source.
ErroredSourceContributesNothing ==
    pc \in {"loop", "done"} =>
        LET clean == {k \in 1..i : ~Errored(k)}
        IN  /\ \A k \in 1..i : Errored(k) => BucketsOf(SourceAt(k)) = {}
            /\ LoopState = RunAcrossSources(StartState, PairsFrom(1, clean),
                                            types, search_term)

----------------------------------------------------------------------------
(* C4 *)

Without(d, f) == SelectSeq(d, LAMBDA p : p[1] # f)
IsMissing(v) == v \in {NA, None, ""}

\* What the claim allows out to be, given the list item orig of the response.
NormalisedFrom(orig, out, t, term) ==
    IF t \in NormalisedTypes
    THEN /\ orig.dict /\ out.dict
         /\ IsMissing(DictGet(orig.items, t)) => DictGet(out.items, t) = term
         /\ ~IsMissing(DictGet(orig.items, t)) =>
                DictGet(out.items, t) = DictGet(orig.items, t)
         /\ Without(out.items, t) = Without(orig.items, t)
    ELSE out = orig

\* The source index and database a bucket key names.
Origins(key) ==
    {o \in (1..i) \X DbNames :
        /\ key = Key(SourceAt(o[1]), o[2])
        /\ HasKey(ReportedResults(o[1]), o[2])}

\* C4: every record of every bucket of the aggregate is the record at the same
\* place of the source's response with, when types[0] is email, url or
\* username, that one field set to the search term if it was absent, empty or
\* N/A, and kept otherwise; no other field is added, removed or changed, and
\* for any other types[0] the record is unchanged.
IdentityFieldNormalised ==
    pc \in {"loop", "done"} =>
        \A b \in 1..Len(all_results.results) :
            LET key == all_results.results[b][1]
                records == all_results.results[b][2]
            IN  /\ Cardinality(Origins(key)) = 1
                /\ \A o \in Origins(key) :
                     LET reported == Lookup(ReportedResults(o[1]), o[2])
                     IN  /\ Len(records) = Len(reported)
                         /\ \A j \in 1..Len(records) :
                              NormalisedFrom(reported[j], records[j],
                                             types[1], search_term)

\* The returned aggregate holds a record whose identity field was filled in
\* and one whose identity field was kept.
IdentityFieldNormalisedWitness ==
    /\ pc = "done"
    /\ types[1] \in NormalisedTypes
    /\ \E b \in 1..Len(all_results.results) :
         \E o \in Origins(all_results.results[b][1]) :
            LET reported == Lookup(ReportedResults(o[1]), o[2])
                records == all_results.results[b][2]
            IN  /\ \E j \in 1..Len(records) :
                     /\ IsMissing(DictGet(reported[j].items, types[1]))
                     /\ DictGet(records[j].items, types[1]) = search_term
                /\ \E j \in 1..Len(records) :
                     /\ ~IsMissing(DictGet(reported[j].items, types[1]))
                     /\ records[j] = reported[j]

----------------------------------------------------------------------------
(* C5 *)

\* The search call returned, with a size that is a number.
Succeeded(k) == ~SearchFailed(k) /\ ReportedSize(k).t = "num"
SucceededWithResults(k) ==
    Succeeded(k) /\ ReportedResults(k) # <<>> /\ ReportedSize(k).v > 0
SucceededEmpty(k) ==
    Succeeded(k) /\ (ReportedResults(k) = <<>> \/ ReportedSize(k).v = 0)

\* C5 as claimed: an iteration on a source that succeeds with size == 0
\* changes nothing in the aggregate (size, successful_sources and elapsed),
\* and only an iteration on a source that succeeds with size > 0 changes
\* any of the three.
OnlyResultsAccumulate ==
    [][i' = i + 1 =>
         /\ SucceededEmpty(i)' =>
               /\ all_results' = all_results
               /\ successful_sources' = successful_sources
         /\ (all_results' # all_results \/ successful_sources' # successful_sources)
               => SucceededWithResults(i)']_vars

SumOver(S, val(_)) == SumSeq([k \in 1..i |-> IF k \in S THEN val(k) ELSE 0])

\* The sources whose merge ran to its end: non-empty results, size > 0, and
\* every list item fit for the normalisation.
MergedSources ==
    {k \in 1..i :
        /\ SucceededWithResults(k)
        /\ types[1] \in NormalisedTypes =>
             \A b \in 1..Len(ReportedResults(k)) :
                \A j \in 1..Len(ReportedResults(k)[b][2]) :
                    ReportedResults(k)[b][2][j].dict}

\* C5 as amended: a source that succeeds with size == 0 or with no results
\* has no bucket; size and successful_sources count exactly the sources
\* whose merge ran to its end; elapsed is the sum of took over every source
\* whose processing did not end in the error branch, whatever its size.
AccumulationPerOutcome ==
    pc \in {"loop", "done"} =>
        LET size_of(k) == ReportedSize(k).v
            took_of(k) == ReportedTook(k).v
            clean == {k \in 1..i : ~Errored(k)}
        IN  /\ \A k \in 1..i : SucceededEmpty(k) => BucketsOf(SourceAt(k)) = {}
            /\ \A k \in 1..i : BucketsOf(SourceAt(k)) # {} => SucceededWithResults(k)
            /\ all_results.size = SumOver(MergedSources, size_of)
            /\ successful_sources = Cardinality(MergedSources)
            /\ all_results.took = SumOver(clean, took_of)

\* The call has returned; one source succeeded with size == 0 and a took that
\* is in the elapsed total, another was merged.
AccumulationPerOutcomeWitness ==
    /\ pc = "done"
    /\ \E k \in 1..i :
         /\ SucceededEmpty(k) /\ ~Errored(k) /\ ReportedTook(k).v > 0
         /\ all_results.took >= ReportedTook(k).v
    /\ MergedSources # {}
    /\ successful_sources < i

----------------------------------------------------------------------------
(* C6 *)

CountFailed(k) ==
    \/ count(count_responses[k]).raised
    \/ Get(count_responses[k].json, "count", JNum(0)).t # "num"
ReportedCount(k) == Get(count_responses[k].json, "count", JNum(0))

RECURSIVE SumCounts(_)
SumCounts(counts) ==
    IF counts = <<>> THEN 0 ELSE Head(counts)[2].v + SumCounts(Tail(counts))

\* C6: no error escapes the count loop; after every source the dict has one
\* entry per processed source, in catalog order; a failed source, also one
\* whose count was read and could not be added, has entry 0, any other has
\* the count it reported; total_count is the sum of the entries; and the
\* returned dict holds the same.
CountAggregation ==
    /\ c_pc # "escaped"
    /\ c_pc \in {"loop", "done", "printed"} /\ (c_i > 0 \/ c_pc = "loop") =>
         /\ Len(source_counts) = c_i
         /\ \A k \in 1..c_i :
              /\ source_counts[k][1] = all_sources[k]
              /\ source_counts[k][2] =
                    IF CountFailed(k) THEN JNum(0) ELSE ReportedCount(k)
         /\ total_count = SumCounts(source_counts)
    /\ c_pc \in {"done", "printed"} /\ c_i > 0 =>
         /\ c_i = Len(all_sources)
         /\ count_data["counts"] = source_counts
         /\ count_data["total_count"] = JNum(total_count)

\* The counts are returned; one source failed in its count call, one after
\* its count was read, and one reported a count that is in the total.
CountAggregationWitness ==
    /\ c_pc = "done"
    /\ c_i = Len(all_sources)
    /\ \E k \in 1..c_i : count(count_responses[k]).raised
    /\ \E k \in 1..c_i :
         ~count(count_responses[k]).raised /\ ReportedCount(k).t # "num"
    /\ \E k \in 1..c_i : ~CountFailed(k) /\ ReportedCount(k).v > 0
    /\ total_count > 0

----------------------------------------------------------------------------
(* C7 *)

Ceil(a, b) == (a + b - 1) \div b

\* The count the printed estimate is for.
EstimatedCount ==
    IF "count" \in DOMAIN count_data THEN count_data["count"].v
    ELSE count_data["total_count"].v

CreditLinesPrinted ==
    SelectSeq(credit_lines,
              LAMBDA l : l.kind \in {"credits_header", "single_page", "all_data"})

\* C7: the estimate print_count_results prints for a count c is no line for
\* c = 0, 1 credit for 0 < c <= 10000, and besides that ceil(c / 10000)
\* credits/pages for c > 10000.
CreditEstimateIsCeiling ==
    c_pc = "printed" =>
        LET c == EstimatedCount
        IN  CreditLinesPrinted =
               IF c = 0 THEN <<>>
               ELSE <<Line("credits_header", "", 0), Line("single_page", "", 1)>>
                    \o (IF c > 10000
                        THEN <<Line("all_data", "", Ceil(c, 10000))>> ELSE <<>>)

----------------------------------------------------------------------------
(* What was rendered *)

\* The list items of all buckets, in the order the loops visit them.
RECURSIVE AllRecords(_)
AllRecords(buckets) ==
    IF buckets = <<>> THEN <<>> ELSE Head(buckets)[2] \o AllRecords(Tail(buckets))

InputRecords == AllRecords(Get(r_results, "results", <<>>))

\* The records a sink holds in full: the numbers n whose heading is followed
\* by field lines and the line that ends the record.
EndsOf(lines, h) ==
    {y \in (h + 1)..Len(lines) :
        /\ lines[y].kind = "record_end"
        /\ \A z \in (h + 1)..(y - 1) : lines[z].kind = "field"}
HeadingsOf(lines, n) ==
    {h \in 1..Len(lines) :
        lines[h].kind = "record" /\ lines[h].n = n /\ EndsOf(lines, h) # {}}
RenderedIn(lines) == {n \in 1..Len(InputRecords) : HeadingsOf(lines, n) # {}}
FieldLinesOf(lines, n) ==
    LET h == CHOOSE x \in HeadingsOf(lines, n) : TRUE
        y == CHOOSE x \in EndsOf(lines, h) : TRUE
    IN  SubSeq(lines, h + 1, y - 1)
LinesOfGroup(L, g) == SelectSeq(L, LAMBDA l : l.group = g)

NonEmpty(v) == v # "" /\ v # None

----------------------------------------------------------------------------
(* C8 *)

IdentityGroup == <<"email", "login", "username", "user", "profile", "nick">>
CredentialGroup == <<"password", "pass", "pwd">>
LocationGroup == <<"url", "website", "site", "domain">>

\* The places in the group's list of the fields the record holds with a value
\* that is non-empty and not N/A.
Candidates(items, G) ==
    {k \in 1..Len(G) :
        HasKey(items, G[k]) /\ NonEmpty(Lookup(items, G[k])) /\ Lookup(items, G[k]) # NA}
Least(S) == CHOOSE k \in S : \A m \in S : k <= m

GroupSelection(items, L, G, g) ==
    LET gl == LinesOfGroup(L, g)
        c == Candidates(items, G)
    IN  /\ Len(gl) <= 1
        /\ (gl = <<>>) <=> (c = {})
        /\ c # {} => /\ gl[1].label = Title(G[Least(c)])
                     /\ gl[1].value = Lookup(items, G[Least(c)])

RecordSelection(items, L) ==
    /\ GroupSelection(items, L, IdentityGroup, "identity")
    /\ GroupSelection(items, L, CredentialGroup, "credential")
    /\ GroupSelection(items, L, LocationGroup, "location")

\* C8: for every record print_results printed and every record
\* save_results_to_file wrote, each of the three groups gives at most one
\* line, for the first field in the group's order that the record holds with
\* a value that is non-empty and not N/A, and no line exactly when the record
\* holds no such field of the group.
PriorityGroupSelection ==
    /\ \A n \in RenderedIn(console) :
          RecordSelection(InputRecords[n].items, FieldLinesOf(console, n))
    /\ \A n \in RenderedIn(file) :
          RecordSelection(InputRecords[n].items, FieldLinesOf(file, n))

\* A record was printed and written that holds two shown fields of the
\* identity group, the later one in the group's order inserted first, and no
\* shown field of the location group.
PriorityGroupSelectionWitness ==
    /\ r_pc = "saved"
    /\ \E n \in RenderedIn(console) \cap RenderedIn(file) :
         LET items == InputRecords[n].items
             c == Candidates(items, IdentityGroup)
         IN  /\ Cardinality(c) >= 2
             /\ \E k \in 1..Len(items) : \E m \in c :
                   /\ items[k][1] = IdentityGroup[Least(c)]
                   /\ m # Least(c)
                   /\ \E q \in 1..(k - 1) : items[q][1] = IdentityGroup[m]
             /\ Candidates(items, LocationGroup) = {}
             /\ Len(LinesOfGroup(FieldLinesOf(console, n), "identity")) = 1
             /\ Len(LinesOfGroup(FieldLinesOf(file, n), "identity")) = 1

----------------------------------------------------------------------------
(* C9 *)

GroupNames == Range(IdentityGroup) \cup Range(CredentialGroup) \cup Range(LocationGroup)

\* The lines the claim has the last step emit for a record.
RECURSIVE RemainingExpected(_)
RemainingExpected(items) ==
    IF items = <<>> THEN <<>>
    ELSE (IF /\ Head(items)[1] \notin GroupNames
             /\ NonEmpty(Head(items)[2]) /\ Head(items)[2] # NA
          THEN <<FieldLine("other", Title(ReplaceUnderscore(Head(items)[1])),
                           Head(items)[2])>>
          ELSE <<>>)
         \o RemainingExpected(Tail(items))

RemainingRendered(items, L) ==
    /\ LinesOfGroup(L, "other") = RemainingExpected(items)
    /\ \A x, y \in 1..Len(L) : L[x].group = "other" /\ L[y].group # "other" => y < x

\* C9: for every record printed or written, every field whose name is none of
\* the 13 names of the groups and whose value is non-empty and not N/A is
\* emitted exactly once, after the group lines, in the record's insertion
\* order, and no field with one of the 13 names is emitted by this step.
RemainingFieldsRendered ==
    /\ \A n \in RenderedIn(console) :
          RemainingRendered(InputRecords[n].items, FieldLinesOf(console, n))
    /\ \A n \in RenderedIn(file) :
          RemainingRendered(InputRecords[n].items, FieldLinesOf(file, n))

----------------------------------------------------------------------------
(* C10 *)

\* A failure is raised in the try block: by the file system at a point the
\* writer reaches, or by a list item that is no dict once the records are
\* written.
SaveFailureOccurred ==
    \/ fault.at \in {"open", "write_header", "close"}
    \/ /\ Get(r_results, "size", 0) # 0
       /\ \/ fault.at \in {"write_summary", "getsize"}
          \/ \E n \in 1..Len(InputRecords) : ~InputRecords[n].dict

\* C10: no failure raised while opening, writing or measuring the file leaves
\* save_results_to_file as an exception: it returns None exactly when such a
\* failure occurred, and the file name otherwise.
SaveNeverPropagates ==
    /\ r_pc # "save_escaped"
    /\ r_pc = "saved" =>
         /\ SaveFailureOccurred => save_ret = NoPath
         /\ ~SaveFailureOccurred => save_ret = Filename(save_args) /\ save_ret # NoPath

\* The writer returned None after a failure that only the last handler
\* catches.
SaveNeverPropagatesWitness ==
    /\ r_pc = "saved"
    /\ save_ret = NoPath
    /\ save_msg = "unexpected_error"
    /\ fault.exc = "RuntimeError"

----------------------------------------------------------------------------
(* C11 *)

KindsOf(lines) == [k \in 1..Len(lines) |-> lines[k].kind]
PositionsOf(lines, kind) == {k \in 1..Len(lines) : lines[k].kind = kind}

HeaderKinds ==
    <<"rule", "title", "rule", "search_term", "search_type", "generated",
      "total_results", "duration", "rule", "blank">>
FooterKinds ==
    <<"rule", "summary_title", "rule", "total_records", "databases",
      "search_term", "search_type", "generated", "rule">>

InputBuckets == Get(r_results, "results", <<>>)

\* The file begins with the header, which shows the size and the duration.
HasHeader(lines) ==
    /\ Len(lines) >= Len(HeaderKinds)
    /\ KindsOf(SubSeq(lines, 1, Len(HeaderKinds))) = HeaderKinds
    /\ lines[7].n = Get(r_results, "size", 0)
    /\ lines[8].n = Get(r_results, "took", 0)

\* The file ends with the summary, whose total is the number of records the
\* file holds and whose database figure is the number of buckets.
HasFooter(lines) ==
    /\ Len(lines) >= Len(HeaderKinds) + Len(FooterKinds)
    /\ LET foot == SubSeq(lines, Len(lines) - Len(FooterKinds) + 1, Len(lines))
       IN  /\ KindsOf(foot) = FooterKinds
           /\ foot[4].n = Cardinality(PositionsOf(lines, "record"))
           /\ foot[4].n = Cardinality(RenderedIn(lines))
           /\ foot[5].n = Len(InputBuckets)

\* Between header and summary there is one section per bucket, in the order
\* of the buckets, each holding one rendered record per record of the bucket,
\* and nothing of a header or a summary.
HasBucketSections(lines) ==
    LET first == Len(HeaderKinds) + 1
        last == Len(lines) - Len(FooterKinds)
        dbs == {k \in first..last : lines[k].kind = "database"}
        nth(b) == CHOOSE k \in dbs : Cardinality({m \in dbs : m < k}) = b - 1
        upto(b) == IF b = Len(InputBuckets) THEN last ELSE nth(b + 1) - 1
    IN  /\ Cardinality(dbs) = Len(InputBuckets)
        /\ \A k \in first..last :
              lines[k].kind \in {"rule", "database", "records_found", "record",
                                 "field", "record_end", "blank"}
        /\ RenderedIn(lines) = 1..Len(InputRecords)
        /\ \A k \in first..last : lines[k].kind = "record" => \E d \in dbs : d < k
        /\ \A b \in 1..Len(InputBuckets) :
              /\ lines[nth(b)].label = InputBuckets[b][1]
              /\ lines[nth(b) + 1].kind = "records_found"
              /\ lines[nth(b) + 1].n = Len(InputBuckets[b][2])
              /\ Cardinality({k \in nth(b)..upto(b) : lines[k].kind = "record"})
                    = Len(InputBuckets[b][2])

PathReturned == r_pc = "saved" /\ save_ret # NoPath

\* C11 as claimed: every file for which a path is returned is the header, then
\* one section per bucket with every record rendered, then the summary whose
\* total is the number of records rendered, also for results of size 0.
ReportFileStructure ==
    PathReturned => HasHeader(file) /\ HasFooter(file) /\ HasBucketSections(file)

\* C11 as amended: that structure holds when the size of the results is not
\* 0; for size 0 the file is the header and the one line that says no results
\* were found, without bucket sections and without summary.
ReportFileStructureBySize ==
    PathReturned =>
        /\ HasHeader(file)
        /\ Get(r_results, "size", 0) # 0 => HasFooter(file) /\ HasBucketSections(file)
        /\ Get(r_results, "size", 0) = 0 =>
              KindsOf(file) = HeaderKinds \o <<"no_results">>

\* A path was returned for results of two buckets with three records in all,
\* and the file holds the three and the summary.
ReportFileStructureWitness ==
    /\ PathReturned
    /\ Len(InputBuckets) >= 2
    /\ Len(InputRecords) = 3
    /\ HasFooter(file)
    /\ Cardinality(PositionsOf(file, "record")) = 3

----------------------------------------------------------------------------
(* C12 *)

\* The buckets and records a sink went through, in order: the database
\* lines, the record counts and the record headings.
VisitsOf(lines) ==
    SelectSeq(lines, LAMBDA l : l.kind \in {"database", "records_found", "record"})

LabelsAndValues(L) == [k \in 1..Len(L) |-> <<L[k].label, L[k].value>>]

BothRendered == r_pc = "saved" /\ console # <<>> /\ save_ret # NoPath

\* C12: print_results and save_results_to_file, given the same results, go
\* through the same buckets and records in the same order, and every record
\* that both hold has the same field lines in both: the same field for each
\* group and the same remaining fields, with the same labels and values.
ConsoleFileEquivalence ==
    /\ \A n \in RenderedIn(console) \cap RenderedIn(file) :
          /\ FieldLinesOf(console, n) = FieldLinesOf(file, n)
          /\ LabelsAndValues(FieldLinesOf(console, n))
                = LabelsAndValues(FieldLinesOf(file, n))
    /\ BothRendered =>
          /\ VisitsOf(console) = VisitsOf(file)
          /\ RenderedIn(console) = RenderedIn(file)

\* Both sinks hold the same three records of two buckets, one of them with a
\* group line and a line of the last loop.
ConsoleFileEquivalenceWitness ==
    /\ BothRendered
    /\ Len(InputBuckets) >= 2
    /\ RenderedIn(console) = 1..3
    /\ RenderedIn(file) = 1..3
    /\ \E n \in RenderedIn(file) :
          /\ LinesOfGroup(FieldLinesOf(file, n), "identity") # <<>>
          /\ LinesOfGroup(FieldLinesOf(file, n), "other") # <<>>

----------------------------------------------------------------------------
(* C13 *)

\* The places in the catalog of the sources a bucket key names.
SourcesOfKey(key) == {k \in 1..Len(all_sources) : key \in KeysOf(all_sources[k])}

\* The calls made so far are those for the first i sources of the catalog, one
\* each and in catalog order; each was made when the outcomes of all calls
\* before it had been merged or recorded; the statements after the loop are
\* reached only after the call for the last source.
CallsInCatalogOrder ==
    pc \in {"loop", "done"} =>
        /\ i <= Len(all_sources)
        /\ queried = SubSeq(all_sources, 1, i)
        /\ Len(responses) = Len(queried)
        /\ \A e \in 1..Len(errors) : \E k \in 1..i : errors[e] = queried[k]
        /\ pc = "done" => queried = all_sources

\* The buckets of the aggregate are in the catalog order of their sources.
BucketsInCatalogOrder ==
    pc \in {"loop", "done"} =>
        \A a, b \in 1..Len(all_results.results) :
            a < b =>
               \A ka \in SourcesOfKey(all_results.results[a][1]) :
                  \A kb \in SourcesOfKey(all_results.results[b][1]) :
                      /\ ka <= kb
                      /\ kb <= i

\* C13: for a catalog of N sources the loop makes exactly N search calls, one
\* per source in catalog order, each after the outcome of the one before was
\* merged or its error recorded, whatever the outcomes; the loop then ends
\* and the call returns; the buckets are in the aggregate in the catalog
\* order of their sources.
SequentialFanOut ==
    /\ [](CallsInCatalogOrder /\ BucketsInCatalogOrder)
    /\ [][pc = "loop" /\ pc' = "loop" => i' = i + 1 /\ Len(queried') = Len(queried) + 1]_vars
    /\ <>(pc = "done")

\* The call has returned after a failure and two successes whose buckets are
\* in the aggregate.
SequentialFanOutWitness ==
    /\ pc = "done"
    /\ Len(queried) = Len(all_sources)
    /\ errors # <<>>
    /\ \E a, b \in 1..Len(all_results.results) :
          /\ a < b
          /\ \E ka \in SourcesOfKey(all_results.results[a][1]) :
                \E kb \in SourcesOfKey(all_results.results[b][1]) : ka < kb

----------------------------------------------------------------------------
(* C14 *)

\* The place in seq of an element of seq.
IndexIn(seq, x) == CHOOSE k \in 1..Len(seq) : seq[k] = x

\* The sources the search loop has taken, with the responses they gave, in
\* catalog order from place k on.
RECURSIVE CatalogOrderPairs(_)
CatalogOrderPairs(k) ==
    IF k > Len(all_sources) THEN <<>>
    ELSE (IF all_sources[k] \in Range(queried)
          THEN << <<all_sources[k], responses[IndexIn(queried, all_sources[k])]>> >>
          ELSE <<>>)
         \o CatalogOrderPairs(k + 1)

\* The same for the count loop: an iteration stores the entry of its source,
\* so the entries of source_counts are in the order the sources were taken.
RECURSIVE CatalogOrderCountPairs(_)
CatalogOrderCountPairs(k) ==
    IF k > Len(all_sources) THEN <<>>
    ELSE (IF HasKey(source_counts, all_sources[k])
          THEN << <<all_sources[k],
                    count_responses[IndexIn([n \in 1..Len(source_counts) |->
                                                 source_counts[n][1]],
                                            all_sources[k])]>> >>
          ELSE <<>>)
         \o CatalogOrderCountPairs(k + 1)

\* The state the count loop reaches on a list of <<source, response>> pairs.
RECURSIVE RunCountAcrossSources(_, _)
RunCountAcrossSources(st, pairs) ==
    IF pairs = <<>> THEN st
    ELSE RunCountAcrossSources(
             CountLoopBody(st, Head(pairs)[1], Head(pairs)[2]).st, Tail(pairs))

CountStartState == [total_count |-> 0, source_counts |-> <<>>]

\* A dict without the order of its keys.
Mapping(d) == {<<d[k][1], d[k][2]>> : k \in 1..Len(d)}
UniqueKeys(d) == \A a, b \in 1..Len(d) : d[a][1] = d[b][1] => a = b

\* The buckets a taken source has when the loop runs on it alone.
BucketsAlone(k) ==
    Mapping(RunAcrossSources(StartState, << <<queried[k], responses[k]>> >>,
                             types, search_term).all_results.results)

CatalogOrderState == RunAcrossSources(StartState, CatalogOrderPairs(1), types, search_term)
CatalogOrderCounts == RunCountAcrossSources(CountStartState, CatalogOrderCountPairs(1))

\* C14: with the outcome of every source fixed, the sources taken in any
\* order give the size, the elapsed total, the successful_sources and the
\* mapping from bucket keys to record lists that the catalog order gives,
\* and every source's buckets are in the mapping as the source alone gives
\* them (none is overwritten by a bucket of another source); the count loop
\* gives the same total and the same per-source counts, also in the returned
\* dict.
OrderIndependentMerge ==
    /\ pc \in {"loop", "done"} =>
         /\ Len(queried) = i /\ Len(responses) = i
         /\ all_results.size = CatalogOrderState.all_results.size
         /\ all_results.took = CatalogOrderState.all_results.took
         /\ successful_sources = CatalogOrderState.successful_sources
         /\ UniqueKeys(all_results.results)
         /\ Mapping(all_results.results) = Mapping(CatalogOrderState.all_results.results)
         /\ Mapping(all_results.results) = UNION {BucketsAlone(k) : k \in 1..i}
    /\ c_pc \in {"loop", "done"} =>
         /\ Len(source_counts) = c_i /\ Len(count_responses) = c_i
         /\ total_count = CatalogOrderCounts.total_count
         /\ UniqueKeys(source_counts)
         /\ Mapping(source_counts) = Mapping(CatalogOrderCounts.source_counts)
         /\ c_pc = "done" =>
               /\ count_data["total_count"] = JNum(CatalogOrderCounts.total_count)
               /\ Mapping(count_data["counts"]) = Mapping(CatalogOrderCounts.source_counts)

\* The search loop has returned after taking the sources in another order
\* than the catalog's; two sources gave buckets of the same database name,
\* and the buckets are in another order than the catalog order gives.
OrderIndependentMergeWitness ==
    /\ pc = "done"
    /\ queried # all_sources
    /\ all_results.results # CatalogOrderState.all_results.results
    /\ \E a, b \in 1..i :
          /\ a # b
          /\ \E db \in DbNames :
                /\ HasKey(all_results.results, Key(queried[a], db))
                /\ HasKey(all_results.results, Key(queried[b], db))

====
